---- MODULE Spec2Model ----
(***************************************************************************)
(* qmgr: a launcher that keeps named VM configurations as JSON files and   *)
(* turns a configuration into a qemu command line (src/main.go).           *)
(*                                                                         *)
(* Strings.  A Go string is modelled as a sequence of bytes, each byte     *)
(* written as a TLA+ string: a printable ASCII byte stands for itself      *)
(* ("a", "{", "\""), and a non-ASCII byte is written by its hex name       *)
(* ("xFF", "xEF", "xBF", "xBD").  String literals of the program that only *)
(* ever appear in process arguments are kept as one chunk ("-machine");    *)
(* everything that reaches a file is kept byte by byte.  The string a      *)
(* sequence denotes is the concatenation of its elements.                  *)
(***************************************************************************)
EXTENDS Integers, Sequences, FiniteSets, TLC

VARIABLES
    \* ---- the command line program (Spec) ----
    fs,          \* the per-user config directory: path -> file
    env,         \* the environment of every invocation: VISUAL, EDITOR, and
                 \* whether user.Current() succeeds
    proc,        \* per slot, the process running there: pc (where it is in main),
                 \* argv (os.Args[1:]), config, diskPath, configPath, status,
                 \* execs (the programs it launched) and output (what it printed)
    started,     \* number of invocations started so far
    lastWrite,   \* ghost, per path: the records written by completed Encodes, in
                 \* order, and the kind of the latest operation on the file
    \* ---- ConfigStore as a function (SpecStore) ----
    sName, sRec, sPhase, sLoaded,
    \* ---- ArgumentBuilder as a function (SpecArgs) ----
    aConfig, aConfig0, aArgs, aPhase,
    numCPU       \* runtime.NumCPU() of the host

cliVars   == <<fs, env, proc, started, lastWrite>>
storeVars == <<sName, sRec, sPhase, sLoaded>>
argVars   == <<aConfig, aConfig0, aArgs, aPhase, numCPU>>
vars      == <<cliVars, storeVars, argVars>>

-----------------------------------------------------------------------------
(* Bounds of the model *)
MaxDrives      == 2   \* longest drives sequence drawn as an input
MaxPorts       == 2   \* longest ports sequence drawn as an input
MaxInvocations == 2   \* invocations of the program started in one behaviour

-----------------------------------------------------------------------------
(* Data model: src/main.go 14-36 *)

Port(guest, host) == [guest |-> guest, host |-> host]
Drive(p, t)       == [path |-> p, type |-> t]

\* A Go slice is nil or holds elements; encoding/json tells the two apart.
NilSlice     == [isNil |-> TRUE,  elems |-> <<>>]
MkSlice(s)   == [isNil |-> FALSE, elems |-> s]

VMConfig(name, memory, drives, ports, cores, fullscreen) ==
    [name |-> name, memory |-> memory, drives |-> drives, ports |-> ports,
     cores |-> cores, fullscreen |-> fullscreen]

\* &VMConfig{}: every field at its zero value.
ZeroConfig == VMConfig(<<>>, <<>>, NilSlice, NilSlice, 0, FALSE)

ConfigDir == <<".", "c", "o", "n", "f", "i", "g", "/", "q", "m", "g", "r", "/",
               "c", "o", "n", "f", "i", "g", "s">>
DiskDir   == <<".", "c", "o", "n", "f", "i", "g", "/", "q", "m", "g", "r", "/",
               "d", "i", "s", "k", "s">>
QemuExec  == <<"qemu-system-x86_64">>
QemuImg   == <<"qemu-img">>

-----------------------------------------------------------------------------
(* Helpers on sequences *)

\* The concatenation of ss[lo..hi], and of all of ss.
RECURSIVE FlattenRange(_, _, _)
FlattenRange(ss, lo, hi) ==
    IF lo > hi THEN <<>>
    ELSE IF lo = hi THEN ss[lo]
    ELSE LET mid == (lo + hi) \div 2 IN
         FlattenRange(ss, lo, mid) \o FlattenRange(ss, mid + 1, hi)
Flatten(ss) == FlattenRange(ss, 1, Len(ss))

IsPrefix(p, s) == Len(p) <= Len(s) /\ SubSeq(s, 1, Len(p)) = p

\* fmt.Sprintf("%d", n) for an unsigned n: the decimal digits, most significant first.
DigitChar == <<"0", "1", "2", "3", "4", "5", "6", "7", "8", "9">>
RECURSIVE Itoa(_)
Itoa(n) == IF n < 10 THEN <<DigitChar[n + 1]>>
           ELSE Itoa(n \div 10) \o <<DigitChar[(n % 10) + 1]>>

\* strings.Join(elems, sep)
Join(elems, sep) ==
    Flatten([i \in 1..Len(elems) |-> IF i = 1 THEN elems[i] ELSE sep \o elems[i]])

\* filepath.Join for path elements that are already clean (no empty, "." or
\* ".." element and no separator inside a name): the elements joined by "/".
PathJoin(elems) == Join(elems, <<"/">>)

-----------------------------------------------------------------------------
(* encoding/json as writeConfig uses it: json.NewEncoder(file) with          *)
(* SetIndent("", "    ") and the default HTML escaping: src/main.go 190-192 *)

\* Bytes above 0x7F of the model's alphabet.  "xEF" leads a three byte rune and
\* "xBF", "xBD" continue one: "xEF" followed by two of them is valid UTF-8
\* (EF BF BD is U+FFFD itself).  "xFF" is never valid UTF-8.
HighBytes == {"xFF", "xEF", "xBF", "xBD"}
ContBytes == {"xBF", "xBD"}
HtmlBytes == {"<", ">", "&"}

Hex2(c) == CASE c = "<" -> <<"3", "c">>
             [] c = ">" -> <<"3", "e">>
             [] c = "&" -> <<"2", "6">>

\* s[i] starts a valid rune: a lead byte and its two continuation bytes.
RuneStart(s, i) ==
    s[i] = "xEF" /\ i + 2 <= Len(s) /\ s[i + 1] \in ContBytes /\ s[i + 2] \in ContBytes
\* s[i] belongs to a valid rune.
InRune(s, i) ==
    \/ RuneStart(s, i)
    \/ i > 1 /\ RuneStart(s, i - 1)
    \/ i > 2 /\ RuneStart(s, i - 2)

\* What the encoder writes for the byte s[i]: quote, backslash and the control
\* characters get a backslash escape, <, > and & a \u00XX escape, a byte of a
\* valid rune is copied, and every other byte above 0x7F, which is not valid
\* UTF-8, becomes the escape of U+FFFD, the replacement rune.
EscapeAt(s, i) ==
    LET c == s[i] IN
    CASE c = "\"" -> <<"\\", "\"">>
      [] c = "\\" -> <<"\\", "\\">>
      [] c = "\n" -> <<"\\", "n">>
      [] c = "\r" -> <<"\\", "r">>
      [] c = "\t" -> <<"\\", "t">>
      [] c \in HtmlBytes -> <<"\\", "u", "0", "0">> \o Hex2(c)
      [] c \in HighBytes /\ InRune(s, i) -> <<c>>
      [] c \in HighBytes /\ ~InRune(s, i) -> <<"\\", "u", "f", "f", "f", "d">>
      [] OTHER -> <<c>>

\* The bytes the encoder does not copy as they are.
EscapedBytes == {"\"", "\\", "\n", "\r", "\t"} \cup HtmlBytes \cup HighBytes

\* The body of a JSON string literal for s (s itself when no byte of it needs
\* an escape).
Escape(s) ==
    IF \A i \in 1..Len(s) : s[i] \notin EscapedBytes
    THEN s
    ELSE Flatten([i \in 1..Len(s) |-> EscapeAt(s, i)])

\* A faulty EncString: the bytes are written between quotes without escaping.
EncStringRaw(s) == <<"\"">> \o s \o <<"\"">>
EncString(s) == <<"\"">> \o Escape(s) \o <<"\"">>
EncUint(n)   == Itoa(n)
EncBool(b)   == IF b THEN <<"t", "r", "u", "e">> ELSE <<"f", "a", "l", "s", "e">>
JsonNull     == <<"n", "u", "l", "l">>

\* A line break followed by the indentation of nesting depth d (four spaces each).
Spaces(n) == [i \in 1..n |-> " "]
NewLine(d) == <<"\n">> \o Spaces(4 * d)

\* One `"key": value` member, the key written as a JSON string.
Member(key, val) == EncString(key) \o <<":", " ">> \o val

\* An object at depth d whose members are already encoded (at depth d + 1).
EncObject(members, d) ==
    <<"{">> \o NewLine(d + 1) \o Join(members, <<",">> \o NewLine(d + 1))
            \o NewLine(d) \o <<"}">>

\* An array at depth d: nil is null, the empty slice is [], otherwise one
\* element per line.
EncArray(slice, items, d) ==
    IF slice.isNil THEN JsonNull
    ELSE IF items = <<>> THEN <<"[", "]">>
    ELSE <<"[">> \o NewLine(d + 1) \o Join(items, <<",">> \o NewLine(d + 1))
                 \o NewLine(d) \o <<"]">>

K_name       == <<"n", "a", "m", "e">>
K_memory     == <<"m", "e", "m", "o", "r", "y">>
K_drives     == <<"d", "r", "i", "v", "e", "s">>
K_ports      == <<"p", "o", "r", "t", "s">>
K_cores      == <<"c", "o", "r", "e", "s">>
K_fullscreen == <<"f", "u", "l", "l", "s", "c", "r", "e", "e", "n">>
K_path       == <<"p", "a", "t", "h">>
K_type       == <<"t", "y", "p", "e">>
K_guest      == <<"g", "u", "e", "s", "t">>
K_host       == <<"h", "o", "s", "t">>

\* Drive and Port in the order of their struct fields (src/main.go 14-22).
EncDrive(dr, d) ==
    EncObject(<<Member(K_path, EncString(dr.path)),
                Member(K_type, EncString(dr.type))>>, d)
EncPort(po, d) ==
    EncObject(<<Member(K_guest, EncUint(po.guest)),
                Member(K_host, EncUint(po.host))>>, d)

\* encoder.Encode(config): the indented object in struct field order
\* (src/main.go 24-31) and a final line break.
Encode(c) ==
    EncObject(<<
        Member(K_name, EncString(c.name)),
        Member(K_memory, EncString(c.memory)),
        Member(K_drives, EncArray(c.drives,
            [i \in 1..Len(c.drives.elems) |-> EncDrive(c.drives.elems[i], 2)], 1)),
        Member(K_ports, EncArray(c.ports,
            [i \in 1..Len(c.ports.elems) |-> EncPort(c.ports.elems[i], 2)], 1)),
        Member(K_cores, EncUint(c.cores)),
        Member(K_fullscreen, EncBool(c.fullscreen))>>, 0) \o <<"\n">>


-----------------------------------------------------------------------------
(* encoding/json as readConfig uses it: json.NewDecoder(file).Decode(&config) *)
(* (src/main.go 163-167).  Decode reads the first JSON value of the stream   *)
(* and stops right after it: what follows the value is not looked at.        *)

Bad == [ok |-> FALSE, val |-> <<>>, next |-> 0]
Good(v, n) == [ok |-> TRUE, val |-> v, next |-> n]

IsWs(c) == c \in {" ", "\n", "\t", "\r"}
Digits  == {"0", "1", "2", "3", "4", "5", "6", "7", "8", "9"}
DigitVal(c) == CHOOSE n \in 0..9 : DigitChar[n + 1] = c

\* The first position at or after i that holds no white space (Len(b) + 1 at the end).
SkipWs(b, i) ==
    CHOOSE j \in i..(Len(b) + 1) :
        /\ (j = Len(b) + 1 \/ ~IsWs(b[j]))
        /\ \A k \in i..(j - 1) : IsWs(b[k])

\* The bytes of the rune a \uXXXX escape names, for the escapes the encoder
\* writes over the model's alphabet; <<>> marks any other escape.
RuneOfHex(h) ==
    CASE h = <<"0", "0", "3", "c">> -> <<"<">>
      [] h = <<"0", "0", "3", "e">> -> <<">">>
      [] h = <<"0", "0", "2", "6">> -> <<"&">>
      [] h = <<"f", "f", "f", "d">> -> <<"xEF", "xBF", "xBD">>
      [] OTHER -> <<>>

\* Inside the string literal whose body starts at position i: the number of
\* backslashes that stand directly before position k.
BackslashesBefore(b, i, k) ==
    CHOOSE r \in 0..(k - i) :
        /\ \A n \in (k - r)..(k - 1) : b[n] = "\\"
        /\ (r = k - i \/ b[k - r - 1] # "\\")
\* Position k is not escaped by a backslash before it.
Unescaped(b, i, k) == BackslashesBefore(b, i, k) % 2 = 0
\* Position k starts an escape sequence.
EscapeStart(b, i, k) == b[k] = "\\" /\ Unescaped(b, i, k)
\* Position k is the "u" of a well formed \uXXXX escape.
UEscape(b, i, k, end) ==
    /\ k > i /\ b[k] = "u" /\ EscapeStart(b, i, k - 1)
    /\ k + 4 < end /\ RuneOfHex(SubSeq(b, k + 1, k + 4)) # <<>>

\* What position k of the body contributes to the string; <<"bad">> marks a
\* malformed escape or a raw control character.
UnescapeAt(b, i, k, end) ==
    IF EscapeStart(b, i, k) THEN <<>>
    ELSE IF k > i /\ EscapeStart(b, i, k - 1) THEN
        CASE b[k] \in {"\"", "\\", "/"} -> <<b[k]>>
          [] b[k] = "n" -> <<"\n">>
          [] b[k] = "r" -> <<"\r">>
          [] b[k] = "t" -> <<"\t">>
          [] UEscape(b, i, k, end) -> RuneOfHex(SubSeq(b, k + 1, k + 4))
          [] OTHER -> <<"bad">>
    ELSE IF \E u \in 1..4 : k - u > i /\ UEscape(b, i, k - u, end) THEN <<>>
    ELSE IF b[k] \in {"\n", "\r", "\t"} THEN <<"bad">>
    ELSE <<b[k]>>

\* Position k holds the quote that closes the literal.
ClosesString(b, i, k) ==
    /\ b[k] = "\"" /\ Unescaped(b, i, k)
    /\ \A m \in i..(k - 1) : b[m] # "\"" \/ ~Unescaped(b, i, m)

\* The string literal whose body starts at position i (after the opening
\* quote): its unescaped bytes and the position after its closing quote.
ReadString(b, i) ==
    IF ~\E k \in i..Len(b) : b[k] = "\"" /\ Unescaped(b, i, k) THEN Bad
    ELSE LET end   == CHOOSE k \in i..Len(b) : ClosesString(b, i, k)
             parts == [k \in 1..(end - i) |-> UnescapeAt(b, i, i + k - 1, end)] IN
         IF \A k \in i..(end - 1) : b[k] \notin {"\\", "\n", "\r", "\t"}
         THEN Good(SubSeq(b, i, end - 1), end + 1)     \* nothing to unescape
         ELSE IF \E k \in 1..(end - i) : parts[k] = <<"bad">> THEN Bad
         ELSE Good(Flatten(parts), end + 1)

\* An unsigned integer literal at position i: 0, or digits without a leading 0.
RECURSIVE ReadDigits(_, _, _)
ReadDigits(b, i, acc) ==
    IF i <= Len(b) /\ b[i] \in Digits
    THEN ReadDigits(b, i + 1, 10 * acc + DigitVal(b[i]))
    ELSE Good(acc, i)
ReadUint(b, i) ==
    IF i > Len(b) \/ b[i] \notin Digits THEN Bad
    ELSE IF b[i] = "0" /\ i + 1 <= Len(b) /\ b[i + 1] \in Digits THEN Bad
    ELSE LET r == ReadDigits(b, i, 0) IN
         \* a fraction or an exponent does not fit a uint
         IF r.next <= Len(b) /\ b[r.next] \in {".", "e", "E"} THEN Bad ELSE r

HasAt(b, i, lit) == i + Len(lit) - 1 <= Len(b) /\ SubSeq(b, i, i + Len(lit) - 1) = lit

\* A JSON value is [t, v]: t its kind ("str", "num", "bool", "null", "arr",
\* "obj") and v the string, the number, the flag, the items, or the members
\* (each <<key, value>>) in the order read.
JVal(t, v) == [t |-> t, v |-> v]

RECURSIVE ReadValue(_, _)
RECURSIVE ReadItems(_, _, _)
RECURSIVE ReadMembers(_, _, _)

\* The items of an array from position i, after "[" or after a ",".
ReadItems(b, i, acc) ==
    LET r == ReadValue(b, i) IN
    IF ~r.ok THEN Bad
    ELSE LET j == SkipWs(b, r.next) IN
         IF j > Len(b) THEN Bad
         ELSE IF b[j] = "," THEN ReadItems(b, j + 1, Append(acc, r.val))
         ELSE IF b[j] = "]" THEN Good(JVal("arr", Append(acc, r.val)), j + 1)
         ELSE Bad

\* The members of an object from position i, after "{" or after a ",".
ReadMembers(b, i, acc) ==
    LET k == SkipWs(b, i) IN
    IF k > Len(b) \/ b[k] # "\"" THEN Bad
    ELSE LET key == ReadString(b, k + 1) IN
         IF ~key.ok THEN Bad
         ELSE LET c == SkipWs(b, key.next) IN
              IF c > Len(b) \/ b[c] # ":" THEN Bad
              ELSE LET r == ReadValue(b, c + 1) IN
                   IF ~r.ok THEN Bad
                   ELSE LET j == SkipWs(b, r.next)
                            m == Append(acc, <<key.val, r.val>>) IN
                        IF j > Len(b) THEN Bad
                        ELSE IF b[j] = "," THEN ReadMembers(b, j + 1, m)
                        ELSE IF b[j] = "}" THEN Good(JVal("obj", m), j + 1)
                        ELSE Bad

\* The JSON value that starts at the first non-blank position at or after i.
ReadValue(b, i) ==
    LET j == SkipWs(b, i) IN
    IF j > Len(b) THEN Bad
    ELSE IF b[j] = "{" THEN
        LET k == SkipWs(b, j + 1) IN
        IF k <= Len(b) /\ b[k] = "}" THEN Good(JVal("obj", <<>>), k + 1)
        ELSE ReadMembers(b, j + 1, <<>>)
    ELSE IF b[j] = "[" THEN
        LET k == SkipWs(b, j + 1) IN
        IF k <= Len(b) /\ b[k] = "]" THEN Good(JVal("arr", <<>>), k + 1)
        ELSE ReadItems(b, j + 1, <<>>)
    ELSE IF b[j] = "\"" THEN
        LET r == ReadString(b, j + 1) IN
        IF r.ok THEN Good(JVal("str", r.val), r.next) ELSE Bad
    ELSE IF b[j] \in Digits THEN
        LET r == ReadUint(b, j) IN
        IF r.ok THEN Good(JVal("num", r.val), r.next) ELSE Bad
    ELSE IF HasAt(b, j, <<"t", "r", "u", "e">>) THEN Good(JVal("bool", TRUE), j + 4)
    ELSE IF HasAt(b, j, <<"f", "a", "l", "s", "e">>) THEN Good(JVal("bool", FALSE), j + 5)
    ELSE IF HasAt(b, j, JsonNull) THEN Good(JVal("null", <<>>), j + 4)
    ELSE Bad


\* Storing a JSON value into a Go value.  A key that names no field is skipped,
\* a repeated key overwrites, null leaves a string, a number or a flag as it is
\* and makes a slice nil, and a value of the wrong kind is an error.  Field
\* names are matched exactly (Go would also accept another letter case).
Fail == [ok |-> FALSE, val |-> <<>>]
Ok(v) == [ok |-> TRUE, val |-> v]

RECURSIVE IntoDrive(_, _)
IntoDrive(members, d) ==
    IF members = <<>> THEN Ok(d)
    ELSE LET key == Head(members)[1]
             v   == Head(members)[2] IN
         IF key \notin {K_path, K_type} \/ v.t = "null" THEN IntoDrive(Tail(members), d)
         ELSE IF v.t # "str" THEN Fail
         ELSE IF key = K_path THEN IntoDrive(Tail(members), [d EXCEPT !.path = v.v])
         ELSE IntoDrive(Tail(members), [d EXCEPT !.type = v.v])

RECURSIVE IntoPort(_, _)
IntoPort(members, p) ==
    IF members = <<>> THEN Ok(p)
    ELSE LET key == Head(members)[1]
             v   == Head(members)[2] IN
         IF key \notin {K_guest, K_host} \/ v.t = "null" THEN IntoPort(Tail(members), p)
         ELSE IF v.t # "num" THEN Fail
         ELSE IF key = K_guest THEN IntoPort(Tail(members), [p EXCEPT !.guest = v.v])
         ELSE IntoPort(Tail(members), [p EXCEPT !.host = v.v])

\* One array element into a new, zero Drive or Port.
DriveOf(v) == IF v.t = "null" THEN Ok(Drive(<<>>, <<>>))
              ELSE IF v.t = "obj" THEN IntoDrive(v.v, Drive(<<>>, <<>>))
              ELSE Fail
PortOf(v)  == IF v.t = "null" THEN Ok(Port(0, 0))
              ELSE IF v.t = "obj" THEN IntoPort(v.v, Port(0, 0))
              ELSE Fail

\* A JSON array into []Drive / []Port: a non-nil slice of the decoded elements.
DrivesOf(v) ==
    IF v.t = "null" THEN Ok(NilSlice)
    ELSE IF v.t # "arr" THEN Fail
    ELSE IF \E i \in 1..Len(v.v) : ~DriveOf(v.v[i]).ok THEN Fail
    ELSE Ok(MkSlice([i \in 1..Len(v.v) |-> DriveOf(v.v[i]).val]))
PortsOf(v) ==
    IF v.t = "null" THEN Ok(NilSlice)
    ELSE IF v.t # "arr" THEN Fail
    ELSE IF \E i \in 1..Len(v.v) : ~PortOf(v.v[i]).ok THEN Fail
    ELSE Ok(MkSlice([i \in 1..Len(v.v) |-> PortOf(v.v[i]).val]))

RECURSIVE IntoConfig(_, _)
IntoConfig(members, c) ==
    IF members = <<>> THEN Ok(c)
    ELSE LET key  == Head(members)[1]
             v    == Head(members)[2]
             rest == Tail(members) IN
         IF key = K_drives THEN
             LET r == DrivesOf(v) IN
             IF r.ok THEN IntoConfig(rest, [c EXCEPT !.drives = r.val]) ELSE Fail
         ELSE IF key = K_ports THEN
             LET r == PortsOf(v) IN
             IF r.ok THEN IntoConfig(rest, [c EXCEPT !.ports = r.val]) ELSE Fail
         ELSE IF v.t = "null" THEN IntoConfig(rest, c)
         ELSE IF key = K_name THEN
             IF v.t = "str" THEN IntoConfig(rest, [c EXCEPT !.name = v.v]) ELSE Fail
         ELSE IF key = K_memory THEN
             IF v.t = "str" THEN IntoConfig(rest, [c EXCEPT !.memory = v.v]) ELSE Fail
         ELSE IF key = K_cores THEN
             IF v.t = "num" THEN IntoConfig(rest, [c EXCEPT !.cores = v.v]) ELSE Fail
         ELSE IF key = K_fullscreen THEN
             IF v.t = "bool" THEN IntoConfig(rest, [c EXCEPT !.fullscreen = v.v]) ELSE Fail
         ELSE IntoConfig(rest, c)

\* json.NewDecoder(file).Decode(&config) on a file holding the bytes b, config
\* pointing at &VMConfig{}: the first value of b, stored into the record.  An
\* empty file (io.EOF), a malformed value or a value that is no object is an
\* error.  (A top-level null would set the pointer to nil without an error;
\* nothing the program writes starts with null.)
Decode(b) ==
    LET r == ReadValue(b, 1) IN
    IF ~r.ok \/ r.val.t # "obj" THEN Fail
    ELSE IntoConfig(r.val.v, ZeroConfig)


-----------------------------------------------------------------------------
(* The config directory and the two file operations of ConfigStore *)

HomeDir == <<"/", "h">>                       \* usr.HomeDir of user.Current()
JsonExt == <<".", "j", "s", "o", "n">>
Names   == {<<"a">>, <<"b">>}                 \* the VM names the model draws from

\* filepath.Join(usr.HomeDir, ConfigDir, name+".json"): src/main.go 155, 178-183
ConfigPath(name) == PathJoin(<<HomeDir, ConfigDir, name \o JsonExt>>)
ConfigPaths == {ConfigPath(n) : n \in Names}

NoFile      == [exists |-> FALSE, data |-> <<>>]
FileOf(b)   == [exists |-> TRUE, data |-> b]

\* os.Create(filePath): the file exists and is truncated to nothing.
CreateFile(files, p) == [files EXCEPT ![p] = FileOf(<<>>)]

\* A faulty WriteAt0: the bytes are added at the end, as on a descriptor opened
\* for appending.
WriteAppend(old, bytes) == old \o bytes

\* What a Write of bytes at offset 0 leaves in a file that held old: the
\* bytes, then whatever old held beyond them.
WriteAt0(old, bytes) == bytes \o SubSeq(old, Len(bytes) + 1, Len(old))

\* encoder.Encode(config) on the descriptor os.Create returned: one Write of
\* the whole serialization at the descriptor's offset, which is 0.
EncodeToFile(files, p, c) == [files EXCEPT ![p] = FileOf(WriteAt0(@.data, Encode(c)))]

\* readConfig once user.Current() has succeeded: os.Open fails on a missing
\* file, then the decoder reads the file (src/main.go 155-169).
readConfig(files, name) ==
    IF ~files[ConfigPath(name)].exists THEN Fail
    ELSE Decode(files[ConfigPath(name)].data)

-----------------------------------------------------------------------------
(* ConfigStore as a function: writeConfig then readConfig on drawn records *)

T_img   == <<"i", "m", "g">>
T_qcow2 == <<"q", "c", "o", "w", "2">>
T_iso   == <<"i", "s", "o">>

\* All sequences over S of length at most n.
SeqsUpTo(S, n) == UNION {[1..k -> S] : k \in 0..n}
SlicesUpTo(S, n) == {NilSlice} \cup {MkSlice(q) : q \in SeqsUpTo(S, n)}

\* Strings with every kind of byte the encoder treats differently.
StrSamples == {<<>>, <<"2", "G">>, <<"a", "\"">>, <<"\\", "<">>, <<"\n">>,
               <<"xEF", "xBF", "xBD">>, <<"xFF">>}
StoreDrives == {Drive(<<>>, T_img), Drive(<<"/", "d">>, T_qcow2)}
StorePorts  == {Port(22, 2222), Port(80, 8080)}
StoreRecords ==
    {VMConfig(n, m, d, p, c, f) :
        n \in {<<"a">>, <<"b", "xFF">>}, m \in StrSamples,
        d \in SlicesUpTo(StoreDrives, MaxDrives), p \in SlicesUpTo(StorePorts, MaxPorts),
        c \in {0, 4}, f \in BOOLEAN}

\* What the file held before the save, when it existed.
OldRecord == VMConfig(<<"o", "l", "d">>, <<"1", "6", "G">>,
                      MkSlice(<<Drive(<<"/", "o">>, T_iso), Drive(<<"/", "p">>, T_img),
                                Drive(<<"/", "q">>, T_img), Drive(<<"/", "r">>, T_img)>>),
                      MkSlice(<<Port(1, 2)>>), 8, TRUE)

CliOff == env = <<>> /\ proc = <<>> /\ started = 0 /\ lastWrite = <<>>
StoreOff == sName = <<>> /\ sRec = ZeroConfig /\ sPhase = "off" /\ sLoaded = Fail
ArgsOff ==
    /\ aConfig = ZeroConfig /\ aConfig0 = ZeroConfig /\ aArgs = <<>> /\ aPhase = "off"
    /\ numCPU = 1

StoreInit ==
    /\ sName \in Names
    /\ sRec \in StoreRecords
    /\ sPhase = "start"
    /\ sLoaded = Fail
    /\ \E old \in {NoFile, FileOf(Encode(OldRecord))} :
          fs = [p \in ConfigPaths |-> IF p = ConfigPath(sName) THEN old ELSE NoFile]
    /\ CliOff /\ ArgsOff

StoreUnchanged == UNCHANGED <<env, proc, started, lastWrite, argVars, sName, sRec>>

\* writeConfig up to os.Create (src/main.go 173-187): user.Current, MkdirAll or
\* Create fails and the save returns an error, or the file is created empty.
StoreCreate ==
    /\ sPhase = "start"
    /\ \/ sPhase' = "failed" /\ fs' = fs
       \/ sPhase' = "created" /\ fs' = CreateFile(fs, ConfigPath(sName))
    /\ sLoaded' = sLoaded
    /\ StoreUnchanged

\* writeConfig from the encoder on (src/main.go 190-196).
StoreEncode ==
    /\ sPhase = "created"
    /\ \/ sPhase' = "failed" /\ fs' = fs
       \/ sPhase' = "saved" /\ fs' = EncodeToFile(fs, ConfigPath(sName), sRec)
    /\ sLoaded' = sLoaded
    /\ StoreUnchanged

\* readConfig(name) after the save (src/main.go 149-170).
StoreLoad ==
    /\ sPhase = "saved"
    /\ sPhase' = "loaded"
    /\ sLoaded' = readConfig(fs, sName)
    /\ fs' = fs
    /\ StoreUnchanged

StoreNext == StoreCreate \/ StoreEncode \/ StoreLoad
SpecStore == StoreInit /\ [][StoreNext]_vars


-----------------------------------------------------------------------------
(* ArgumentBuilder: the argument list launchVM builds (src/main.go 199-236). *)
(* An argument is a string; the list is a sequence of strings.               *)

\* A faulty DriveArgs: no check for an empty path.
DriveArgsNoPathCheck(idx, drive) ==
    IF drive.type = T_img THEN
        << <<"-drive">>,
           <<"if=none,id=usb">> \o Itoa(idx) \o <<",format=raw,file=">> \o drive.path,
           <<"-device">>,
           <<"usb-storage,bus=xhci.0,drive=usb">> \o Itoa(idx) >>
    ELSE IF drive.type = T_qcow2 THEN
        << <<"-drive">>, <<"if=virtio,format=qcow2,file=">> \o drive.path >>
    ELSE IF drive.type = T_iso THEN
        << <<"-cdrom">>, drive.path >>
    ELSE <<>>

\* A faulty DriveArgs: every USB drive is given the identifier usb0.
DriveArgsFixedId(idx, drive) ==
    IF drive.path = <<>> THEN <<>>
    ELSE IF drive.type = T_img THEN
        << <<"-drive">>,
           <<"if=none,id=usb">> \o Itoa(0) \o <<",format=raw,file=">> \o drive.path,
           <<"-device">>,
           <<"usb-storage,bus=xhci.0,drive=usb">> \o Itoa(0) >>
    ELSE IF drive.type = T_qcow2 THEN
        << <<"-drive">>, <<"if=virtio,format=qcow2,file=">> \o drive.path >>
    ELSE IF drive.type = T_iso THEN
        << <<"-cdrom">>, drive.path >>
    ELSE <<>>

\* The arguments one drive of the range loop appends; idx is Go's zero-based
\* index of the drive in config.Drives (src/main.go 208-222).
DriveArgs(idx, drive) ==
    IF drive.path = <<>> THEN <<>>
    ELSE IF drive.type = T_img THEN
        << <<"-drive">>,
           <<"if=none,id=usb">> \o Itoa(idx) \o <<",format=raw,file=">> \o drive.path,
           <<"-device">>,
           <<"usb-storage,bus=xhci.0,drive=usb">> \o Itoa(idx) >>
    ELSE IF drive.type = T_qcow2 THEN
        << <<"-drive">>, <<"if=virtio,format=qcow2,file=">> \o drive.path >>
    ELSE IF drive.type = T_iso THEN
        << <<"-cdrom">>, drive.path >>
    ELSE <<>>

\* for idx, drive := range config.Drives
AllDriveArgs(drives) == Flatten([i \in 1..Len(drives) |-> DriveArgs(i - 1, drives[i])])

\* A faulty HostFwd: guest and host port exchanged.
HostFwdSwapped(fwd) == <<"tcp::">> \o Itoa(fwd.guest) \o <<"-:">> \o Itoa(fwd.host)

\* fmt.Sprintf("tcp::%d-:%d", fwd.Host, fwd.Guest)
HostFwd(fwd) == <<"tcp::">> \o Itoa(fwd.host) \o <<"-:">> \o Itoa(fwd.guest)

\* The -netdev argument pair (src/main.go 230-236).
PortArgs(ports) ==
    IF Len(ports) > 0
    THEN << <<"-netdev">>,
            <<"user,id=net0,hostfwd=">>
                \o Join([i \in 1..Len(ports) |-> HostFwd(ports[i])], <<",">>) >>
    ELSE <<>>

\* config.Cores after the check of src/main.go 223-225.
CoresAfter(c, ncpu) == IF c.cores = 0 THEN ncpu ELSE c.cores

\* The record launchVM leaves behind its pointer: the assignment to
\* config.Cores is made on the caller's record.
ConfigAfterLaunch(c, ncpu) == [c EXCEPT !.cores = CoresAfter(c, ncpu)]

\* args as handed to exec.Command(QemuExec, args...).
BuildArgs(c, ncpu) ==
    << <<"-m">>, c.memory,
       <<"-machine">>, <<"q35">>,
       <<"-device">>, <<"qemu-xhci,id=xhci">>,
       <<"-device">>, <<"usb-kbd">>,
       <<"-device">>, <<"usb-tablet">>,
       <<"-device">>, <<"virtio-net,netdev=net0">> >>
    \o AllDriveArgs(c.drives.elems)
    \o << <<"-enable-kvm">>, <<"-cpu">>, <<"host">>, <<"-smp">>, Itoa(CoresAfter(c, ncpu)) >>
    \o (IF c.fullscreen THEN << <<"-display">>, <<"gtk,full-screen=on">> >> ELSE <<>>)
    \o PortArgs(c.ports.elems)

-----------------------------------------------------------------------------
(* ArgumentBuilder as a function: launchVM on drawn records *)

DriveTypes == {T_img, T_qcow2, T_iso, <<"r", "a", "w">>}
DrivePaths == {<<>>, <<"/", "d">>}
ArgDrives  == {Drive(p, t) : p \in DrivePaths, t \in DriveTypes}
ArgPorts   == {Port(22, 2222), Port(80, 8080)}
HostCPUs   == {1, 8}                           \* values of runtime.NumCPU()
ArgConfigs ==
    {VMConfig(<<"a">>, <<"2", "G">>, MkSlice(d), MkSlice(p), c, f) :
        d \in SeqsUpTo(ArgDrives, MaxDrives), p \in SeqsUpTo(ArgPorts, MaxPorts),
        c \in {0, 4}, f \in BOOLEAN}

ArgsInit ==
    /\ aConfig \in ArgConfigs
    /\ aConfig0 = aConfig
    /\ numCPU \in HostCPUs
    /\ aArgs = <<>>
    /\ aPhase = "start"
    /\ fs = [p \in ConfigPaths |-> NoFile]
    /\ CliOff /\ StoreOff

\* One call launchVM(config) on the record behind the pointer: the arguments
\* are built (and kept in aArgs, one entry per call), config.Cores is
\* assigned, and qemu runs and ends with or without an error.  The caller may
\* call again with the same pointer.
Launch ==
    /\ aPhase \in {"start", "ran", "failed"}
    /\ Len(aArgs) < 2
    /\ aArgs' = Append(aArgs, BuildArgs(aConfig, numCPU))
    /\ aConfig' = ConfigAfterLaunch(aConfig, numCPU)
    /\ \/ aPhase' = "ran"
       \/ aPhase' = "failed"
    /\ UNCHANGED <<cliVars, storeVars, aConfig0, numCPU>>

ArgsNext == Launch
SpecArgs == ArgsInit /\ [][ArgsNext]_vars


-----------------------------------------------------------------------------
(* The command line program: main and what it calls (src/main.go 38-130).   *)
(* Every invocation is a process of its own; processes share the files.     *)

Procs == {1, 2}                               \* slots for concurrently running invocations

C_list   == <<"list">>
C_run    == <<"run">>
C_create == <<"create">>
C_edit   == <<"edit">>
Commands == {C_list, C_run, C_create, C_edit}

DefaultSize == <<"6", "4", "G">>              \* size := "64G"
QcowExt     == <<".", "q", "c", "o", "w", "2">>

\* The values of os.Args[1:] the model draws from.
Argvs ==
    {<<>>, <<C_list>>, <<C_run>>, <<C_create>>, <<C_edit>>, << <<"help">> >>}
    \cup {<<C_run, n>> : n \in Names}
    \cup {<<C_create, n>> : n \in Names}
    \cup {<<C_create, n, <<"3", "2", "G">> >> : n \in Names}
    \cup {<<C_edit, n>> : n \in Names}

\* filepath.Join(usr.HomeDir, DiskDir, name+".qcow2"): src/main.go 256
DiskPath(name) == PathJoin(<<HomeDir, DiskDir, name \o QcowExt>>)

\* filepath.Join("~", ConfigDir, os.Args[2]+".json"): src/main.go 125
EditPath(name) == PathJoin(<< <<"~">>, ConfigDir, name \o JsonExt >>)

\* The record `create` builds (src/main.go 84-105).
Template(name, diskPath) ==
    VMConfig(name, <<"2", "G">>,
             MkSlice(<<Drive(<<>>, T_img), Drive(diskPath, T_qcow2), Drive(<<>>, T_iso)>>),
             MkSlice(<<Port(22, 2222)>>), 0, FALSE)

\* editor := os.Getenv("VISUAL"), or os.Getenv("EDITOR") when that is empty.
EditorProgram(e) == IF e.VISUAL # <<>> THEN e.VISUAL ELSE e.EDITOR

\* os.ReadDir lists the directory sorted by file name; listConfigs trims ".json".
SortedNames == << <<"a">>, <<"b">> >>
ListedNames(files) == SelectSeq(SortedNames, LAMBDA n : files[ConfigPath(n)].exists)

NoProc == [pc |-> "idle", argv |-> <<>>, config |-> ZeroConfig, diskPath |-> <<>>,
           configPath |-> <<>>, status |-> -1, execs |-> <<>>, output |-> <<>>]

\* One line of output: the stream, the function whose error it reports (or
\* that prints it), and the text.
Line(fd, from, text) == [fd |-> fd, from |-> from, text |-> text]
Printed(r, line) == [r EXCEPT !.output = Append(@, line)]
Ran(r, prog, args) == [r EXCEPT !.execs = Append(@, [prog |-> prog, args |-> args])]
\* The process ends: os.Exit(code), a return from main (0) or a panic (2).
Exited(r, code) == [r EXCEPT !.pc = "done", !.status = code]
At(r, label) == [r EXCEPT !.pc = label]

\* A config a user has written by hand: no ports, all host cores.
StoredRecord ==
    VMConfig(<<"a">>, <<"4", "G">>,
             MkSlice(<<Drive(<<"/", "u">>, T_img), Drive(DiskPath(<<"a">>), T_qcow2)>>),
             MkSlice(<<>>), 0, TRUE)

Envs == {[VISUAL |-> <<>>,     EDITOR |-> <<"ed">>, userOK |-> TRUE],
         [VISUAL |-> <<>>,     EDITOR |-> <<>>,     userOK |-> TRUE],
         [VISUAL |-> <<"vi">>, EDITOR |-> <<"ed">>, userOK |-> FALSE]}

Init ==
    /\ \E old \in {NoFile, FileOf(Encode(StoredRecord))} :
          fs = [p \in ConfigPaths |-> IF p = ConfigPath(<<"a">>) THEN old ELSE NoFile]
    /\ env \in Envs
    /\ numCPU = 8
    /\ proc = [p \in Procs |-> NoProc]
    /\ started = 0
    /\ lastWrite = [p \in ConfigPaths |-> [recs |-> <<>>, op |-> "none"]]
    /\ StoreOff
    /\ aConfig = ZeroConfig /\ aConfig0 = ZeroConfig /\ aArgs = <<>> /\ aPhase = "off"

NotCli == UNCHANGED <<env, storeVars, argVars>>

\* main up to the first call of each command, for a process r with its argv
\* set: src/main.go 39-45, 55-58, 69-77, 120-123
Main(r) ==
    LET a == r.argv IN
    IF Len(a) < 1 THEN Exited(Printed(r, Line("stderr", "main", <<"no command given">>)), 0)
    ELSE IF a[1] = C_list THEN At(r, "list")
    ELSE IF a[1] \notin Commands THEN Exited(r, 0)
    ELSE IF Len(a) = 1
         THEN Exited(Printed(r, Line("stderr", "main", <<"no ">> \o a[1] \o <<" name">>)), 1)
    ELSE IF a[1] = C_run THEN At(r, "run_open")
    ELSE IF a[1] = C_create THEN At(r, "create_disk")
    ELSE At(r, "edit")

\* A user starts the program in a free slot (unused slots are taken in order)
\* and main runs up to its first call; nothing before that call is visible to
\* another process.
Invoke(p) ==
    /\ proc[p].pc \in {"idle", "done"}
    /\ \A q \in Procs : q < p => proc[q].pc # "idle"
    /\ started < MaxInvocations
    /\ \E a \in Argvs : proc' = [proc EXCEPT ![p] = Main([NoProc EXCEPT !.argv = a])]
    /\ started' = started + 1
    /\ UNCHANGED <<fs, lastWrite>> /\ NotCli

\* case "list": listConfigs and the loop printing its result
\* (src/main.go 46-52, 132-147).  A missing directory lists as empty.
List(p) ==
    /\ proc[p].pc = "list"
    /\ LET r == proc[p] IN
       \/ /\ ~env.userOK
          /\ proc' = [proc EXCEPT ![p] =
                Exited(Printed(r, Line("stderr", "listConfigs", <<"panic: getting current user">>)), 2)]
       \/ /\ env.userOK                     \* ReadDir fails, and not with "not exist"
          /\ proc' = [proc EXCEPT ![p] =
                Exited(Printed(r, Line("stderr", "listConfigs", <<"panic: reading config file directory">>)), 2)]
       \/ /\ env.userOK
          /\ proc' = [proc EXCEPT ![p] =
                Exited([r EXCEPT !.output = @ \o [i \in 1..Len(ListedNames(fs)) |->
                                           Line("stdout", "main", ListedNames(fs)[i])]], 0)]
    /\ UNCHANGED <<fs, started, lastWrite>> /\ NotCli

\* case "run", readConfig up to os.Open (src/main.go 59-63, 150-160).
RunOpen(p) ==
    /\ proc[p].pc = "run_open"
    /\ LET r == proc[p]
           f == ConfigPath(r.argv[2]) IN
       \/ /\ ~env.userOK
          /\ proc' = [proc EXCEPT ![p] =
                Exited(Printed(r, Line("stderr", "readConfig", <<"getting current user">>)), 1)]
       \/ /\ env.userOK /\ ~fs[f].exists
          /\ proc' = [proc EXCEPT ![p] =
                Exited(Printed(r, Line("stderr", "readConfig", <<"opening config">>)), 1)]
       \/ /\ env.userOK /\ fs[f].exists
          /\ proc' = [proc EXCEPT ![p] = At([r EXCEPT !.configPath = f], "run_decode")]
    /\ UNCHANGED <<fs, started, lastWrite>> /\ NotCli

\* readConfig from the decoder on (src/main.go 163-169); the file is read in
\* one piece.
RunDecode(p) ==
    /\ proc[p].pc = "run_decode"
    /\ LET r == proc[p]
           d == Decode(fs[r.configPath].data) IN
       \/ /\ ~d.ok
          /\ proc' = [proc EXCEPT ![p] =
                Exited(Printed(r, Line("stderr", "readConfig", <<"decoding config">>)), 1)]
       \/ /\ d.ok
          /\ proc' = [proc EXCEPT ![p] = At([r EXCEPT !.config = d.val], "run_launch")]
    /\ UNCHANGED <<fs, started, lastWrite>> /\ NotCli

\* launchVM(config) and the panic on its error (src/main.go 64-66, 199-248).
RunLaunch(p) ==
    /\ proc[p].pc = "run_launch"
    /\ LET r == proc[p]
           after == Printed(Ran([r EXCEPT !.config = ConfigAfterLaunch(r.config, numCPU)],
                                QemuExec, BuildArgs(r.config, numCPU)),
                            Line("stdout", "launchVM", <<"cmd.Args">>)) IN
       \/ proc' = [proc EXCEPT ![p] = Exited(after, 0)]
       \/ proc' = [proc EXCEPT ![p] =
                Exited(Printed(after, Line("stderr", "launchVM", <<"panic: executing qemu">>)), 2)]
    /\ UNCHANGED <<fs, started, lastWrite>> /\ NotCli

\* case "create": newDisk, whose error is only printed, and the template
\* (src/main.go 74-105, 250-262).
CreateDisk(p) ==
    /\ proc[p].pc = "create_disk"
    /\ LET r    == proc[p]
           name == r.argv[2]
           size == IF Len(r.argv) > 2 THEN r.argv[3] ELSE DefaultSize
           img  == Ran(r, QemuImg, << <<"create">>, <<"-f">>, <<"qcow2">>, DiskPath(name), size >>)
           none == [config |-> Template(name, <<>>), diskPath |-> <<>>]
           made == [config |-> Template(name, DiskPath(name)), diskPath |-> DiskPath(name)] IN
       \/ /\ ~env.userOK
          /\ proc' = [proc EXCEPT ![p] =
                At(Printed([r EXCEPT !.config = none.config, !.diskPath = none.diskPath],
                           Line("stderr", "newDisk", <<"getting current user">>)), "create_save")]
       \/ /\ env.userOK                     \* qemu-img fails
          /\ proc' = [proc EXCEPT ![p] =
                At(Printed([img EXCEPT !.config = none.config, !.diskPath = none.diskPath],
                           Line("stderr", "newDisk", <<"creating disk image">>)), "create_save")]
       \/ /\ env.userOK
          /\ proc' = [proc EXCEPT ![p] =
                At([img EXCEPT !.config = made.config, !.diskPath = made.diskPath], "create_save")]
    /\ UNCHANGED <<fs, started, lastWrite>> /\ NotCli

\* writeConfig up to os.Create (src/main.go 107-111, 172-188).
CreateSave(p) ==
    /\ proc[p].pc = "create_save"
    /\ LET r == proc[p]
           f == ConfigPath(r.argv[2]) IN
       \/ /\ ~env.userOK
          /\ proc' = [proc EXCEPT ![p] =
                Exited(Printed(r, Line("stderr", "writeConfig", <<"getting current user">>)), 1)]
          /\ UNCHANGED <<fs, lastWrite>>
       \/ /\ env.userOK                     \* MkdirAll or os.Create fails
          /\ proc' = [proc EXCEPT ![p] =
                Exited(Printed(r, Line("stderr", "writeConfig", <<"creating config">>)), 1)]
          /\ UNCHANGED <<fs, lastWrite>>
       \/ /\ env.userOK
          /\ fs' = CreateFile(fs, f)
          /\ lastWrite' = [lastWrite EXCEPT ![f].op = "create"]
          /\ proc' = [proc EXCEPT ![p] = At(r, "create_encode")]
    /\ UNCHANGED started /\ NotCli

\* writeConfig from the encoder on (src/main.go 190-196).
CreateEncode(p) ==
    /\ proc[p].pc = "create_encode"
    /\ LET r == proc[p]
           f == ConfigPath(r.argv[2]) IN
       \/ /\ proc' = [proc EXCEPT ![p] =
                Exited(Printed(r, Line("stderr", "writeConfig", <<"encofing config">>)), 1)]
          /\ UNCHANGED <<fs, lastWrite>>
       \/ /\ fs' = EncodeToFile(fs, f, r.config)
          /\ lastWrite' = [lastWrite EXCEPT ![f] = [recs |-> Append(@.recs, r.config), op |-> "write"]]
          /\ proc' = [proc EXCEPT ![p] = At([r EXCEPT !.configPath = f], "create_edit")]
    /\ UNCHANGED started /\ NotCli

\* fmt.Println(configPath) and editor(configPath) (src/main.go 113-118, 268-283).
CreateEdit(p) ==
    /\ proc[p].pc = "create_edit"
    /\ LET r == proc[p]
           e == Ran(Printed(r, Line("stdout", "main", r.configPath)),
                    EditorProgram(env), <<r.configPath>>) IN
       \/ proc' = [proc EXCEPT ![p] =
                Exited(Printed(e, Line("stderr", "editor", <<"editing config:">>)), 1)]
       \/ /\ EditorProgram(env) # <<>>
          /\ proc' = [proc EXCEPT ![p] = Exited(e, 0)]
    /\ UNCHANGED <<fs, started, lastWrite>> /\ NotCli

\* case "edit": editor on the computed path; an error is printed and main
\* returns (src/main.go 125-129, 268-283).
Edit(p) ==
    /\ proc[p].pc = "edit"
    /\ LET r == proc[p]
           f == EditPath(r.argv[2])
           e == Ran([r EXCEPT !.configPath = f], EditorProgram(env), <<f>>) IN
       \/ proc' = [proc EXCEPT ![p] =
                Exited(Printed(e, Line("stderr", "editor", <<"editing config:">>)), 0)]
       \/ /\ EditorProgram(env) # <<>>
          /\ proc' = [proc EXCEPT ![p] = Exited(e, 0)]
    /\ UNCHANGED <<fs, started, lastWrite>> /\ NotCli

Next ==
    \E p \in Procs :
        \/ Invoke(p) \/ List(p)
        \/ RunOpen(p) \/ RunDecode(p) \/ RunLaunch(p)
        \/ CreateDisk(p) \/ CreateSave(p) \/ CreateEncode(p) \/ CreateEdit(p)
        \/ Edit(p)

Spec == Init /\ [][Next]_vars


-----------------------------------------------------------------------------
(* Properties of ConfigStore (checked under SpecStore) *)

\* s is valid UTF-8, over the model's alphabet: every byte above 0x7F belongs
\* to a lead byte followed by two continuation bytes.
ValidUTF8(s) == \A i \in 1..Len(s) : s[i] \in HighBytes => InRune(s, i)

AllStringsValid(c) ==
    /\ ValidUTF8(c.name) /\ ValidUTF8(c.memory)
    /\ \A i \in 1..Len(c.drives.elems) :
          ValidUTF8(c.drives.elems[i].path) /\ ValidUTF8(c.drives.elems[i].type)

\* C1, as claimed: for every name and every record (any memory string, any
\* cores value including 0, any flag, any drives and ports), a save followed
\* by a load of the same name returns a record equal to the saved one.
C1_RoundTripAnyRecord ==
    sPhase = "loaded" => (sLoaded.ok /\ sLoaded.val = sRec)

\* C1, amended: the same for every record whose strings are valid UTF-8; in
\* particular cores = 0 is read back as 0.
C1_RoundTripValidUTF8 ==
    (sPhase = "loaded" /\ AllStringsValid(sRec)) =>
        /\ sLoaded.ok
        /\ sLoaded.val = sRec
        /\ (sRec.cores = 0 => sLoaded.val.cores = 0)

\* C1, reached: a record with cores = 0, a memory string that needs escaping,
\* a nil ports slice and two drives has been saved over an older, longer file
\* and loaded back.
C1_Witness ==
    /\ sPhase = "loaded" /\ AllStringsValid(sRec)
    /\ sRec.cores = 0 /\ sRec.memory = <<"a", "\"">> /\ sRec.ports.isNil
    /\ Len(sRec.drives.elems) = 2
    /\ sLoaded.ok /\ sLoaded.val.cores = 0
    /\ fs[ConfigPath(sName)].data = Encode(sRec)


-----------------------------------------------------------------------------
(* Properties of ArgumentBuilder (checked under SpecArgs).  aConfig0 is the  *)
(* record as it was handed to the first call, aArgs[k] the list the k-th     *)
(* call built.                                                               *)

Built == Len(aArgs) >= 1
Drives0 == aConfig0.drives.elems
Ports0  == aConfig0.ports.elems

\* The positions of the arguments equal to a.
Positions(args, a) == {k \in 1..Len(args) : args[k] = a}

\* C5, as claimed: building the arguments leaves every field of the record
\* unchanged (cores = 0 stays 0), two builds from the same record give the
\* same list, and cores = n > 0 gives "-smp n".
C5_BuildLeavesRecordUnchanged ==
    Built =>
        /\ aConfig = aConfig0
        /\ (Len(aArgs) = 2 => aArgs[1] = aArgs[2])
        /\ (aConfig0.cores > 0 =>
               \E k \in Positions(aArgs[1], <<"-smp">>) :
                   aArgs[1][k + 1] = Itoa(aConfig0.cores))

\* A drive that contributes arguments: a path, and one of the three types.
Recognised(d) == d.type \in {T_img, T_qcow2, T_iso}
Effective(d) == d.path # <<>> /\ Recognised(d)

\* The arguments between the fixed preamble (twelve arguments, the last the
\* virtio-net device) and "-enable-kvm".
DriveSection(args) ==
    LET e == CHOOSE k \in 1..Len(args) : args[k] = <<"-enable-kvm">> IN
    SubSeq(args, 13, e - 1)

\* What the claim expects of the drive at zero-based index idx.
C7_Expected(idx, d) ==
    CASE d.type = T_img ->
            << <<"-drive">>,
               <<"if=none,id=usb">> \o Itoa(idx) \o <<",format=raw,file=">> \o d.path,
               <<"-device">>, <<"usb-storage,bus=xhci.0,drive=usb">> \o Itoa(idx) >>
      [] d.type = T_qcow2 -> << <<"-drive">>, <<"if=virtio,format=qcow2,file=">> \o d.path >>
      [] d.type = T_iso -> << <<"-cdrom">>, d.path >>

\* The expected arguments of the effective drives among drives[i..], in order.
RECURSIVE C7_ExpectedFrom(_, _)
C7_ExpectedFrom(drives, i) ==
    IF i > Len(drives) THEN <<>>
    ELSE (IF Effective(drives[i]) THEN C7_Expected(i - 1, drives[i]) ELSE <<>>)
         \o C7_ExpectedFrom(drives, i + 1)

IsDriveArg(a) ==
    \/ a \in {<<"-drive">>, <<"-cdrom">>}
    \/ IsPrefix(<<"usb-storage,bus=xhci.0,drive=usb">>, a)

\* C7: a drive with an empty path or an unrecognised type contributes no
\* argument: the drive arguments of every built list are exactly those of the
\* remaining drives, in stored order, and a record with no drive, or only such
\* drives, yields a list without -drive, usb-storage or -cdrom argument.
C7_SkippedDrivesContributeNothing ==
    \A k \in 1..Len(aArgs) :
        /\ aArgs[k][12] = <<"virtio-net,netdev=net0">>
        /\ DriveSection(aArgs[k]) = C7_ExpectedFrom(Drives0, 1)
        /\ ((\A i \in 1..Len(Drives0) : ~Effective(Drives0[i])) =>
               \A j \in 1..Len(aArgs[k]) : ~IsDriveArg(aArgs[k][j]))

\* C7, reached: a list built from a drive with an empty path followed by an
\* iso with a path, and the list holds the -cdrom pair only.
C7_Witness ==
    /\ Built
    /\ Len(Drives0) = 2
    /\ Drives0[1] = Drive(<<>>, T_img) /\ Drives0[2] = Drive(<<"/", "d">>, T_iso)
    /\ DriveSection(aArgs[1]) = << <<"-cdrom">>, <<"/", "d">> >>

\* The forwarding part the claim expects: one tcp::<host>-:<guest> entry per
\* port, a comma before every entry but the first.
RECURSIVE C8_Forwards(_, _)
C8_Forwards(ports, i) ==
    IF i > Len(ports) THEN <<>>
    ELSE (IF i > 1 THEN <<",">> ELSE <<>>)
         \o <<"tcp::">> \o Itoa(ports[i].host) \o <<"-:">> \o Itoa(ports[i].guest)
         \o C8_Forwards(ports, i + 1)

IsNetdevValue(a) == IsPrefix(<<"user,id=net0,hostfwd=">>, a)

\* C8: without ports a built list holds no -netdev argument; with ports it
\* holds exactly one, and its value carries the comma-joined
\* tcp::<host>-:<guest> entries in stored order; ports [{guest 22, host 2222}]
\* gives tcp::2222-:22.
C8_PortForwarding ==
    \A k \in 1..Len(aArgs) :
        LET args == aArgs[k]
            at   == Positions(args, <<"-netdev">>) IN
        /\ (Ports0 = <<>> =>
               at = {} /\ \A j \in 1..Len(args) : ~IsNetdevValue(args[j]))
        /\ (Ports0 # <<>> =>
               /\ Cardinality(at) = 1
               /\ Cardinality({j \in 1..Len(args) : IsNetdevValue(args[j])}) = 1
               /\ \A j \in at :
                     /\ j < Len(args)
                     /\ args[j + 1] = <<"user,id=net0,hostfwd=">> \o C8_Forwards(Ports0, 1))
        /\ (Ports0 = <<Port(22, 2222)>> =>
               \A j \in at : args[j + 1] =
                   <<"user,id=net0,hostfwd=", "tcp::", "2", "2", "2", "2", "-:", "2", "2">>)

\* C8, reached: a list built from two ports, 22 -> 2222 then 80 -> 8080.
C8_Witness ==
    /\ Built
    /\ Ports0 = <<Port(22, 2222), Port(80, 8080)>>
    /\ aArgs[1][Len(aArgs[1])] =
          <<"user,id=net0,hostfwd=", "tcp::", "2", "2", "2", "2", "-:", "2", "2", ",",
            "tcp::", "8", "0", "8", "0", "-:", "8", "0">>

\* The drive identifiers a list defines (-drive ...,id=usb<i>,...) and those it
\* refers to (-device usb-storage,...,drive=usb<i>), as the digits of <i>.
DefinedUsbIds(args) ==
    {SubSeq(args[k], 2, (CHOOSE m \in 2..Len(args[k]) : args[k][m] = ",format=raw,file=") - 1) :
        k \in {j \in 1..Len(args) : IsPrefix(<<"if=none,id=usb">>, args[j])}}
ReferencedUsbIds(args) ==
    {Tail(args[k]) :
        k \in {j \in 1..Len(args) : IsPrefix(<<"usb-storage,bus=xhci.0,drive=usb">>, args[j])}}

\* The list carries, for the drive at zero-based index idx, a definition and a
\* use of the identifier usb<idx>.
CarriesId(args, idx) ==
    Itoa(idx) \in DefinedUsbIds(args) /\ Itoa(idx) \in ReferencedUsbIds(args)

EffectiveOfType(t) == {i \in 1..Len(Drives0) : Effective(Drives0[i]) /\ Drives0[i].type = t}

\* C9, as claimed: for every two distinct drives with a path and the same
\* recognised type (img, qcow2 or iso), the arguments of both carry an
\* identifier derived from the drive's position, and the two differ.
C9_SameTypeDrivesGetIds ==
    \A k \in 1..Len(aArgs) : \A t \in {T_img, T_qcow2, T_iso} :
        \A i, j \in EffectiveOfType(t) :
            i # j => /\ CarriesId(aArgs[k], i - 1) /\ CarriesId(aArgs[k], j - 1)
                     /\ Itoa(i - 1) # Itoa(j - 1)

\* C9, amended: that holds of img drives.  Every img drive with a path gets
\* the identifier usb<i>, i its position in the stored sequence counting the
\* skipped entries, no two of them share one, and no other identifier is
\* emitted: qcow2 and iso drives get none.
C9_ImgDrivesGetDistinctIds ==
    \A k \in 1..Len(aArgs) :
        /\ \A i \in EffectiveOfType(T_img) : CarriesId(aArgs[k], i - 1)
        /\ \A i, j \in EffectiveOfType(T_img) : i # j => Itoa(i - 1) # Itoa(j - 1)
        /\ DefinedUsbIds(aArgs[k]) = {Itoa(i - 1) : i \in EffectiveOfType(T_img)}
        /\ Cardinality(DefinedUsbIds(aArgs[k])) = Cardinality(EffectiveOfType(T_img))
        /\ Cardinality(Positions(aArgs[k], <<"-drive">>))
              = Cardinality(EffectiveOfType(T_img)) + Cardinality(EffectiveOfType(T_qcow2))

\* C9, reached: a skipped entry followed by an img drive, identifier usb1; or
\* two img drives, identifiers usb0 and usb1.
C9_Witness ==
    /\ Built
    /\ Len(Drives0) = 2
    /\ Drives0[2] = Drive(<<"/", "d">>, T_img)
    /\ \/ Drives0[1].path = <<>> /\ DefinedUsbIds(aArgs[1]) = {<<"1">>}
       \/ Drives0[1] = Drive(<<"/", "d">>, T_img) /\ DefinedUsbIds(aArgs[1]) = {<<"0">>, <<"1">>}

\* C10, as claimed: every identifier a -device argument refers to is defined
\* by another argument of the same list: each drive=usb<i> by a -drive with
\* id=usb<i>, and netdev=net0 of the virtio-net device by a -netdev with
\* id=net0, also when there are no ports.
C10_ReferencesAreDefined ==
    \A k \in 1..Len(aArgs) :
        LET args == aArgs[k] IN
        /\ ReferencedUsbIds(args) \subseteq DefinedUsbIds(args)
        /\ ((\E j \in 1..Len(args) : args[j] = <<"virtio-net,netdev=net0">>) =>
               \E j \in 2..Len(args) : args[j - 1] = <<"-netdev">> /\ IsNetdevValue(args[j]))


-----------------------------------------------------------------------------
(* Properties of the command line program (checked under Spec) *)

IsCmd(p, c) == Len(proc[p].argv) >= 2 /\ proc[p].argv[1] = c

\* C2, as claimed: `edit <name>` hands the editor the path that save(name)
\* writes and load(name) reads, <home>/<configDir>/<name>.json.
C2_EditOpensTheConfigFile ==
    \A p \in Procs :
        (IsCmd(p, C_edit) /\ Len(proc[p].execs) >= 1) =>
            proc[p].execs[1].args = <<ConfigPath(proc[p].argv[2])>>

\* C3, as claimed: on every path of `create <name>` that reaches the write,
\* the record written has the drives img "", qcow2 <diskDir>/<name>.qcow2 and
\* iso "" in that order and the one port 22 -> 2222, also when disk
\* provisioning failed.
C3_CreateWritesTheTemplate ==
    \A p \in Procs :
        (IsCmd(p, C_create) /\ proc[p].pc = "create_edit") =>
            LET name == proc[p].argv[2] IN
            /\ proc[p].config.drives.elems =
                  <<Drive(<<>>, T_img), Drive(DiskPath(name), T_qcow2), Drive(<<>>, T_iso)>>
            /\ proc[p].config.ports.elems = <<Port(22, 2222)>>

\* The steps whose failure the process reports, as the lines it wrote to
\* standard error; the usage text of an empty command line is not one.
Failures(p) ==
    {i \in 1..Len(proc[p].output) :
        proc[p].output[i].fd = "stderr" /\ proc[p].output[i].text # <<"no command given">>}

\* C4, as claimed: in list, run, create and edit, a failed step (a missing
\* name, the load, the save, the hypervisor, the editor) ends the invocation
\* with a non-zero exit status; only a failed disk provisioning does not stop
\* `create`.
C4_FailuresExitNonZero ==
    \A p \in Procs :
        /\ (proc[p].pc = "done" /\ \E i \in Failures(p) : proc[p].output[i].from # "newDisk")
               => proc[p].status # 0
        /\ (proc[p].pc # "done" /\ proc[p].pc # "idle")
               => \A i \in Failures(p) : proc[p].output[i].from = "newDisk"

\* No save of the file f is between its os.Create and its Encode.
NoSaveInProgress(f) ==
    \A p \in Procs : ~(proc[p].pc = "create_encode" /\ ConfigPath(proc[p].argv[2]) = f)

\* Saves of f have written, the latest operation on f was such a write, and
\* every save of f has finished.
SavesFinished(f) == lastWrite[f].op = "write" /\ NoSaveInProgress(f)
LastWritten(f) == lastWrite[f].recs[Len(lastWrite[f].recs)]

\* C6, as claimed: once two saves of the same name have finished, however
\* their truncate and write steps interleaved, the file holds exactly the
\* serialization of one of the two records, and a load returns that record.
C6_FileIsOneSerialization ==
    \A f \in ConfigPaths :
        (SavesFinished(f) /\ Len(lastWrite[f].recs) >= 2) =>
            \E i \in 1..Len(lastWrite[f].recs) :
                /\ fs[f].data = Encode(lastWrite[f].recs[i])
                /\ Decode(fs[f].data) = Ok(lastWrite[f].recs[i])

\* C6, amended: once the saves of a name have finished, the file begins with
\* the complete serialization of the record written last and a load returns
\* that record; what follows the serialization is nothing, or the end of an
\* earlier, longer serialization.
C6_LastWriterWins ==
    \A f \in ConfigPaths :
        SavesFinished(f) =>
            LET last == Encode(LastWritten(f)) IN
            /\ IsPrefix(last, fs[f].data)
            /\ Decode(fs[f].data) = Ok(LastWritten(f))
            /\ (fs[f].data # last =>
                   \E i \in 1..Len(lastWrite[f].recs) :
                       LET e == Encode(lastWrite[f].recs[i]) IN
                       /\ Len(e) = Len(fs[f].data)
                       /\ SubSeq(e, Len(last) + 1, Len(e))
                             = SubSeq(fs[f].data, Len(last) + 1, Len(e)))

\* C6, reached: two saves of different records to one name have finished, the
\* file is longer than the serialization of the record written last, and a
\* load returns that record.
C6_Witness ==
    \E f \in ConfigPaths :
        /\ SavesFinished(f)
        /\ Len(lastWrite[f].recs) = 2
        /\ lastWrite[f].recs[1] # lastWrite[f].recs[2]
        /\ Len(fs[f].data) > Len(Encode(LastWritten(f)))
        /\ Decode(fs[f].data) = Ok(LastWritten(f))


====
